---- MODULE Spec2Model ----
(***************************************************************************)
(* A model of the news-analyzer data pipeline:                             *)
(*   preprocess.py  preprocess_data (ticker filter, contiguity filter,     *)
(*                  target builder)                                        *)
(*   features.py    add_sma, add_ema, add_macd, add_bollinger_bands,       *)
(*                  add_rsi                                                *)
(*                                                                         *)
(* A frame is a sequence of rows; a row is a record.  TICKER is an integer *)
(* id (the order of the ids is the lexicographic order of the symbols),    *)
(* TIMESTAMP is in minutes, CLOSE is a positive price.  Floating point     *)
(* columns are modelled by exact rationals extended with the IEEE special  *)
(* values inf and NaN and with the null of the column engines; rounding is *)
(* not modelled.                                                           *)
(***************************************************************************)
EXTENDS Integers, Sequences, FiniteSets

VARIABLES
    pc,                      \* "input" before the call, "done" after it
    raw,                     \* rows scanned from the CSV, in file order
    min_samples_per_ticker,  \* parameter of preprocess_data
    valid_tickers,           \* tickers kept by step 3
    df_valid,                \* df after step 3 (ticker filter)
    df_contig,               \* df after step 4 (sort + delta filter)
    df,                      \* the frame preprocess_data returns
    fdf,                     \* the frame handed to an indicator stage
    window,                  \* the window/span parameter of the stage
    op,                      \* the indicator stage that ran ("none" before)
    fout                     \* the frame the indicator stage returns

vars == <<pc, raw, min_samples_per_ticker, valid_tickers, df_valid, df_contig,
          df, fdf, window, op, fout>>

----------------------------------------------------------------------------
(* Bounds of the model *)

MaxRaw == 4
MaxFrame == 3
MaxWindow == 3

(* Program constants *)

Cadence == 5
short_span == 12
long_span == 26
signal_span == 9
BB_K == 2

Tickers == {1, 2}
Closes == {1, 2}
(* inputs of the contiguity checks: five grid timestamps, one price *)
RawRows == [TICKER : Tickers, TIMESTAMP : {Cadence * k : k \in 0..4}, CLOSE : {1}]
MinSamples == {0, 1, 2}
(* inputs of the target checks: two prices, four grid timestamps for the
   first ticker and two for the second *)
TgtRows ==
    [TICKER : {1}, TIMESTAMP : {Cadence * k : k \in 0..3}, CLOSE : Closes]
        \cup [TICKER : {2}, TIMESTAMP : {Cadence * k : k \in 0..1}, CLOSE : Closes]

----------------------------------------------------------------------------
(* Nullable values of the integer columns DELTA and CLOSE_FWD_1 *)

Null == [null |-> TRUE, v |-> 0]
Some(x) == [null |-> FALSE, v |-> x]

(* Sequences of length at most n over S *)
SeqUpTo(S, n) == UNION {[1..k -> S] : k \in 0..n}

(* Indices of s, and those of the rows of the same ticker as row i (the
   partition of row i under .over("TICKER")), in frame order *)
Idx(s) == 1..Len(s)
SameTicker(s, i) == {j \in Idx(s) : s[j].TICKER = s[i].TICKER}
PosInGroup(s, i) == Cardinality({j \in SameTicker(s, i) : j <= i})
PrevInGroup(s, i) ==
    LET before == {j \in SameTicker(s, i) : j < i}
    IN  IF before = {} THEN 0 ELSE CHOOSE j \in before : \A k \in before : k <= j
NextInGroup(s, i) ==
    LET after == {j \in SameTicker(s, i) : j > i}
    IN  IF after = {} THEN 0 ELSE CHOOSE j \in after : \A k \in after : j <= k

(* df.filter(pred): the rows satisfying pred, in frame order *)
RECURSIVE FilterIdx(_, _, _)
FilterIdx(s, keep, i) ==
    IF i > Len(s) THEN <<>>
    ELSE (IF i \in keep THEN <<s[i]>> ELSE <<>>) \o FilterIdx(s, keep, i + 1)

----------------------------------------------------------------------------
(* preprocess_data *)

(* step 3: group_by("TICKER").agg(len) *)
ticker_counts(rows) ==
    [t \in {rows[i].TICKER : i \in Idx(rows)} |->
        Cardinality({i \in Idx(rows) : rows[i].TICKER = t})]

ValidTickersGE(rows, min_samples) ==
    LET counts == ticker_counts(rows)
    IN  {t \in DOMAIN counts : counts[t] >= min_samples}

(* filter(n_rows > min_samples_per_ticker)["TICKER"] *)
ValidTickers(rows, min_samples) ==
    LET counts == ticker_counts(rows)
    IN  {t \in DOMAIN counts : counts[t] > min_samples}

(* df.filter(TICKER.is_in(valid_tickers)) *)
FilterTickers(rows, valid) ==
    FilterIdx(rows, {i \in Idx(rows) : rows[i].TICKER \in valid}, 1)

(* sort(["TICKER", "TIMESTAMP"]): the order of rows with equal keys is not
   specified by the engine, so every key-sorted permutation is an outcome *)
KeyLE(a, b) ==
    \/ a.TICKER < b.TICKER
    \/ a.TICKER = b.TICKER /\ a.TIMESTAMP <= b.TIMESTAMP
RECURSIVE SortFrom(_, _)
SortFrom(rows, rem) ==
    IF rem = {} THEN {<<>>}
    ELSE UNION {{<<rows[i]>> \o t : t \in SortFrom(rows, rem \ {i})} :
                 i \in {k \in rem : \A j \in rem : KeyLE(rows[k], rows[j])}}
SortResults(rows) == SortFrom(rows, Idx(rows))

DeltaNoOver(s, i) ==
    IF i = 1 THEN Null ELSE Some(s[i].TIMESTAMP - s[i - 1].TIMESTAMP)

(* TIMESTAMP.diff().over("TICKER"): null on the first row of each ticker *)
Delta(s, i) ==
    IF PrevInGroup(s, i) = 0 THEN Null
    ELSE Some(s[i].TIMESTAMP - s[PrevInGroup(s, i)].TIMESTAMP)

(* filter(DELTA == 5 minutes): a null comparison drops the row *)
FilterDelta(s) ==
    FilterIdx(s, {i \in Idx(s) : ~Delta(s, i).null /\ Delta(s, i).v = Cadence}, 1)

CloseFwd1NoOver(s, i) ==
    IF i = Len(s) THEN Null ELSE Some(s[i + 1].CLOSE)

(* step 5: CLOSE.shift(-1).over("TICKER") *)
CloseFwd1(s, i) ==
    IF NextInGroup(s, i) = 0 THEN Null ELSE Some(s[NextInGroup(s, i)].CLOSE)

UpNext(fwd, close) == IF fwd > close THEN 1 ELSE 0

(* with_columns([RET_FWD_1, UP_NEXT]).drop_nulls(subset=["CLOSE_FWD_1"]);
   RET_FWD_1 is kept as the pair (numerator, denominator) *)
AddTargets(s) ==
    LET withCols == [i \in Idx(s) |->
            [TICKER |-> s[i].TICKER, TIMESTAMP |-> s[i].TIMESTAMP,
             CLOSE |-> s[i].CLOSE, CLOSE_FWD_1 |-> CloseFwd1(s, i)]]
        kept == FilterIdx(withCols, {i \in Idx(s) : ~withCols[i].CLOSE_FWD_1.null}, 1)
    IN  [i \in Idx(kept) |->
            [TICKER |-> kept[i].TICKER, TIMESTAMP |-> kept[i].TIMESTAMP,
             CLOSE |-> kept[i].CLOSE, CLOSE_FWD_1 |-> kept[i].CLOSE_FWD_1.v,
             RET_FWD_1 |-> <<kept[i].CLOSE_FWD_1.v - kept[i].CLOSE, kept[i].CLOSE>>,
             UP_NEXT |-> UpNext(kept[i].CLOSE_FWD_1.v, kept[i].CLOSE)]]

----------------------------------------------------------------------------
(* Numbers of the indicator columns: exact rationals <<n, d>> with d > 0 in
   lowest terms, and the values a float column can also hold *)

Abs(x) == IF x < 0 THEN -x ELSE x
RECURSIVE GCD(_, _)
GCD(a, b) == IF b = 0 THEN a ELSE GCD(b, a % b)
Rat(n, d) ==
    LET g == GCD(Abs(n), Abs(d))
        sg == IF d < 0 THEN -1 ELSE 1
    IN  <<(sg * n) \div g, (sg * d) \div g>>
RAdd(a, b) ==
    LET l == (a[2] \div GCD(a[2], b[2])) * b[2]
    IN  Rat(a[1] * (l \div a[2]) + b[1] * (l \div b[2]), l)
RNeg(a) == <<-a[1], a[2]>>
RSub(a, b) == RAdd(a, RNeg(b))
RMul(a, b) ==
    LET g1 == GCD(Abs(a[1]), b[2])
        g2 == GCD(Abs(b[1]), a[2])
    IN  Rat((a[1] \div g1) * (b[1] \div g2), (a[2] \div g2) * (b[2] \div g1))
RDiv(a, b) == RMul(a, Rat(b[2], b[1]))
RLess(a, b) == RSub(a, b)[1] < 0
RLeq(a, b) == RSub(a, b)[1] <= 0
RInt(n) == <<n, 1>>

Num(q) == [k |-> "num", q |-> q]
NegZero == [k |-> "nzero", q |-> <<0, 1>>]
NaN == [k |-> "nan", q |-> <<0, 1>>]
Inf == [k |-> "inf", q |-> <<0, 1>>]
NegInf == [k |-> "ninf", q |-> <<0, 1>>]
NullF == [k |-> "null", q |-> <<0, 1>>]
IsZero(a) == a.k = "nzero" \/ (a.k = "num" /\ a.q[1] = 0)

(* IEEE arithmetic on those values, for the operands the code produces *)
FNeg(a) ==
    IF a.k = "nan" THEN NaN
    ELSE IF a.k = "nzero" THEN Num(RInt(0))
    ELSE IF a.k = "inf" THEN NegInf
    ELSE IF a.k = "ninf" THEN Inf
    ELSE IF a.q[1] = 0 THEN NegZero
    ELSE Num(RNeg(a.q))
FAdd(a, b) ==
    IF a.k = "nan" \/ b.k = "nan" THEN NaN
    ELSE IF {a.k, b.k} = {"inf", "ninf"} THEN NaN
    ELSE IF "inf" \in {a.k, b.k} THEN Inf
    ELSE IF "ninf" \in {a.k, b.k} THEN NegInf
    ELSE IF a.k = "nzero" /\ b.k = "nzero" THEN NegZero
    ELSE Num(RAdd(a.q, b.q))
FSub(a, b) == FAdd(a, FNeg(b))
(* q * a for a rational q > 0 *)
FScale(q, a) ==
    IF a.k # "num" THEN a ELSE Num(RMul(q, a.q))
(* a / b for a finite a >= +0 *)
FDiv(a, b) ==
    IF a.k = "nan" \/ b.k = "nan" THEN NaN
    ELSE IF b.k = "inf" THEN Num(RInt(0))
    ELSE IF b.k = "ninf" THEN NegZero
    ELSE IF IsZero(b) THEN
        (IF IsZero(a) THEN NaN ELSE IF b.k = "nzero" THEN NegInf ELSE Inf)
    ELSE Num(RDiv(a.q, b.q))

----------------------------------------------------------------------------
(* Column expressions of the frame engine *)

(* the entries of column col (aligned with frame s) that belong to the
   partition of row i, in frame order *)
GroupSeq(s, col, i) == FilterIdx(col, SameTicker(s, i), 1)

(* expr.over("TICKER"): the expression is evaluated on each partition and
   its results are put back on the partition's rows; perRow[i] is the
   expression's result on the partition of row i *)
Over(s, perRow) == [i \in Idx(s) |-> perRow[i][PosInGroup(s, i)]]

(* the trailing window of size w ending at position t *)
WindowAt(x, w, t) == [j \in 1..(IF t < w THEN t ELSE w) |-> x[t - (IF t < w THEN t ELSE w) + j]]
RECURSIVE RSum(_, _)
RSum(x, n) == IF n = 0 THEN RInt(0) ELSE RAdd(RSum(x, n - 1), x[n])
Mean(x) == RDiv(RSum(x, Len(x)), RInt(Len(x)))

(* rolling_mean(window_size, min_periods): null until min_periods values *)
RollingMean(x, w, min_periods) ==
    [t \in Idx(x) |->
        IF Len(WindowAt(x, w, t)) < min_periods THEN NullF
        ELSE Num(Mean(WindowAt(x, w, t)))]

(* the sample variance (ddof = 1) of a window; the rolling standard
   deviation is its square root, kept symbolically *)
Variance(x) ==
    LET m == Mean(x)
        sq == [j \in Idx(x) |-> RMul(RSub(x[j], m), RSub(x[j], m))]
    IN  RDiv(RSum(sq, Len(sq)), RInt(Len(x) - 1))
RollingVar(x, w, min_periods) ==
    [t \in Idx(x) |->
        IF Len(WindowAt(x, w, t)) < min_periods THEN NullF
        ELSE IF Len(WindowAt(x, w, t)) = 1 THEN NaN
        ELSE Num(Variance(WindowAt(x, w, t)))]

(* the engine's default for an omitted min_periods: the window size *)
DefaultMinPeriodsOne(w) == 1
DefaultMinPeriods(w) == w

(* ewm_mean(span, adjust=False): y[1] = x[1],
   y[t] = a*x[t] + (1-a)*y[t-1], a = 2/(span+1) *)
Alpha(span) == Rat(2, span + 1)
RECURSIVE EwmAt(_, _, _)
EwmAt(x, span, t) ==
    IF t = 1 THEN x[1]
    ELSE RAdd(RMul(Alpha(span), x[t]),
              RMul(RSub(RInt(1), Alpha(span)), EwmAt(x, span, t - 1)))
EwmMean(x, span) == [t \in Idx(x) |-> EwmAt(x, span, t)]

CloseCol(s) == [i \in Idx(s) |-> RInt(s[i].CLOSE)]

----------------------------------------------------------------------------
(* features.py *)

(* df.with_columns(col.alias(name)) and df.drop(names) *)
WithColumn(s, name, col) ==
    [i \in Idx(s) |->
        [f \in DOMAIN s[i] \cup {name} |-> IF f = name THEN col[i] ELSE s[i][f]]]
Drop(s, names) ==
    [i \in Idx(s) |-> [f \in DOMAIN s[i] \ names |-> s[i][f]]]

(* add_sma: rolling_mean(window, min_periods=window).over(group_col) *)
SmaColNoOver(s, w) == RollingMean(CloseCol(s), w, w)
SmaCol(s, w) ==
    Over(s, [i \in Idx(s) |-> RollingMean(GroupSeq(s, CloseCol(s), i), w, w)])
add_sma(s, w) == WithColumn(s, "SMA", SmaCol(s, w))

(* add_ema: sort, then ewm_mean(span=window, adjust=False).over("TICKER") *)
EmaCol(s, w) ==
    Over(s, [i \in Idx(s) |-> EwmMean(GroupSeq(s, CloseCol(s), i), w)])
add_ema(s, w) ==
    {WithColumn(sorted, "EMA", EmaCol(sorted, w)) : sorted \in SortResults(s)}

(* add_macd, steps 1 to 4 and the clean-up *)
MacdLine(s) == [i \in Idx(s) |-> RSub(s[i]["_short_ema"], s[i]["_long_ema"])]
MacdCol(s) == [i \in Idx(s) |-> s[i].MACD]
MacdSignalNoOver(s) == EwmMean(MacdCol(s), signal_span)
MacdSignal(s) ==
    Over(s, [i \in Idx(s) |-> EwmMean(GroupSeq(s, MacdCol(s), i), signal_span)])
MacdHist(s) == [i \in Idx(s) |-> RSub(s[i].MACD, s[i].MACD_SIGNAL)]
MacdOf(sorted) ==
    LET s1a == WithColumn(sorted, "_short_ema", EmaCol(sorted, short_span))
        s1 == WithColumn(s1a, "_long_ema", EmaCol(sorted, long_span))
        s2 == WithColumn(s1, "MACD", MacdLine(s1))
        s3 == WithColumn(s2, "MACD_SIGNAL", MacdSignal(s2))
        s4 == WithColumn(s3, "MACD_HIST", MacdHist(s3))
    IN  Drop(s4, {"_short_ema", "_long_ema"})
add_macd(s) == {MacdOf(sorted) : sorted \in SortResults(s)}

(* add_bollinger_bands: sort; rolling_mean(window_size=window) and
   rolling_std(window_size=window) over TICKER, min_periods omitted.
   A band is mid + coef * sqrt(rad). *)
NullBand == [k |-> "null", q |-> <<0, 1>>, coef |-> 0, rad |-> <<0, 1>>]
Band(mid, coef, var) ==
    IF mid.k = "null" \/ var.k = "null" THEN NullBand
    ELSE IF var.k = "nan" THEN [NullBand EXCEPT !.k = "nan"]
    ELSE [k |-> "num", q |-> mid.q, coef |-> coef, rad |-> var.q]
BbMid(s, w) ==
    Over(s, [i \in Idx(s) |->
                RollingMean(GroupSeq(s, CloseCol(s), i), w, DefaultMinPeriods(w))])
BbVar(s, w) ==
    Over(s, [i \in Idx(s) |->
                RollingVar(GroupSeq(s, CloseCol(s), i), w, DefaultMinPeriods(w))])
BollingerOf(sorted, w) ==
    LET mid == BbMid(sorted, w)
        var == BbVar(sorted, w)
        upper == [i \in Idx(sorted) |-> Band(mid[i], BB_K, var[i])]
        lower == [i \in Idx(sorted) |-> Band(mid[i], -BB_K, var[i])]
    IN  WithColumn(WithColumn(WithColumn(sorted, "BB_MID", mid),
                              "BB_UPPER", upper), "BB_LOWER", lower)
add_bollinger_bands(s, w) ==
    {BollingerOf(sorted, w) : sorted \in SortResults(s)}

(* add_rsi: _rsi_per_ticker on one partition *)
Diff(x) == [t \in Idx(x) |-> IF t = 1 THEN NaN ELSE FSub(x[t], x[t - 1])]
ClipLower0Id(d) == d
ClipLower0(d) == IF d.k = "num" /\ d.q[1] < 0 THEN Num(RInt(0)) ELSE d
ClipUpper0(d) == IF d.k = "num" /\ d.q[1] > 0 THEN Num(RInt(0)) ELSE d
(* Series.ewm(span, adjust=False).mean(): NaN until the first observation,
   which seeds the recursion *)
RECURSIVE PandasEwmAt(_, _, _)
PandasEwmAt(x, span, t) ==
    IF t = 1 THEN x[1]
    ELSE LET prev == PandasEwmAt(x, span, t - 1)
         IN  IF prev.k = "nan" THEN x[t]
             ELSE IF x[t].k = "nan" THEN prev
             ELSE IF prev = x[t] THEN prev
             ELSE FAdd(FScale(RSub(RInt(1), Alpha(span)), prev),
                       FScale(Alpha(span), x[t]))
PandasEwm(x, span) == [t \in Idx(x) |-> PandasEwmAt(x, span, t)]
RsNaNOnZeroLoss(avg_gain, avg_loss) ==
    IF IsZero(avg_loss) THEN NaN ELSE FDiv(avg_gain, avg_loss)
(* rs = avg_gain / avg_loss, a float division *)
RsFromAverages(avg_gain, avg_loss) == FDiv(avg_gain, avg_loss)
RsiFromRs(rs) == FSub(Num(RInt(100)), FDiv(Num(RInt(100)), FAdd(Num(RInt(1)), rs)))
(* pl.from_pandas: NaN becomes null *)
NanToNull(a) == IF a.k = "nan" THEN NullF ELSE a
RsiPerTicker(batch, w) ==
    LET delta == Diff([i \in Idx(batch) |-> Num(RInt(batch[i].CLOSE))])
        gain == [t \in Idx(delta) |-> ClipLower0(delta[t])]
        loss == [t \in Idx(delta) |-> FNeg(ClipUpper0(delta[t]))]
        avg_gain == PandasEwm(gain, w)
        avg_loss == PandasEwm(loss, w)
        rsi == [t \in Idx(delta) |->
                   NanToNull(RsiFromRs(RsFromAverages(avg_gain[t], avg_loss[t])))]
    IN  WithColumn(batch, "RSI", rsi)

(* df.partition_by("TICKER", maintain_order=True): one frame per ticker, in
   the order of the tickers' first rows; pl.concat puts them end to end *)
RECURSIVE ConcatFrom(_, _)
ConcatFrom(groups, k) ==
    IF k > Len(groups) THEN <<>> ELSE groups[k] \o ConcatFrom(groups, k + 1)
PartitionByReversed(s) ==
    LET firsts == FilterIdx([i \in Idx(s) |-> i],
                            {i \in Idx(s) : PosInGroup(s, i) = 1}, 1)
    IN  [g \in Idx(firsts) |->
            FilterIdx(s, SameTicker(s, firsts[Len(firsts) + 1 - g]), 1)]
PartitionBy(s) ==
    LET firsts == FilterIdx([i \in Idx(s) |-> i],
                            {i \in Idx(s) : PosInGroup(s, i) = 1}, 1)
    IN  [g \in Idx(firsts) |-> FilterIdx(s, SameTicker(s, firsts[g]), 1)]
add_rsi(s, w) ==
    LET parts == PartitionBy(s)
    IN  ConcatFrom([g \in Idx(parts) |-> RsiPerTicker(parts[g], w)], 1)

(* frames handed to the stages, in any row order: two prices, three grid
   timestamps for the first ticker and two for the second *)
FeatRows ==
    [TICKER : {1}, TIMESTAMP : {Cadence * k : k \in 0..2}, CLOSE : Closes]
        \cup [TICKER : {2}, TIMESTAMP : {Cadence * k : k \in 0..1}, CLOSE : Closes]
Windows == 2..MaxWindow

InitFeat ==
    /\ pc = "frame"
    /\ fdf \in SeqUpTo(FeatRows, MaxFrame)
    /\ window = 0
    /\ op = "none"
    /\ fout = <<>>
    /\ raw = <<>>
    /\ min_samples_per_ticker = 0
    /\ valid_tickers = {}
    /\ df_valid = <<>>
    /\ df_contig = <<>>
    /\ df = <<>>

AddSma ==
    /\ pc = "frame"
    /\ \E w \in Windows :
          /\ window' = w
          /\ fout' = add_sma(fdf, w)
    /\ op' = "add_sma"
    /\ pc' = "done"
    /\ UNCHANGED <<raw, min_samples_per_ticker, valid_tickers, df_valid,
                   df_contig, df, fdf>>

AddEma ==
    /\ pc = "frame"
    /\ \E w \in Windows :
          /\ window' = w
          /\ fout' \in add_ema(fdf, w)
    /\ op' = "add_ema"
    /\ pc' = "done"
    /\ UNCHANGED <<raw, min_samples_per_ticker, valid_tickers, df_valid,
                   df_contig, df, fdf>>

(* the spans are the defaults 12, 26, 9; with them the exact value on a
   fourth bar of one ticker has a denominator of 1755^3, beyond 32-bit
   integers, so the stage is taken on frames of at most three bars a ticker *)
AddMacd ==
    /\ pc = "frame"
    /\ \A i \in Idx(fdf) : Cardinality(SameTicker(fdf, i)) <= 3
    /\ fout' \in add_macd(fdf)
    /\ op' = "add_macd"
    /\ pc' = "done"
    /\ UNCHANGED <<raw, min_samples_per_ticker, valid_tickers, df_valid,
                   df_contig, df, fdf, window>>

AddBollingerBands ==
    /\ pc = "frame"
    /\ \E w \in Windows :
          /\ window' = w
          /\ fout' \in add_bollinger_bands(fdf, w)
    /\ op' = "add_bollinger_bands"
    /\ pc' = "done"
    /\ UNCHANGED <<raw, min_samples_per_ticker, valid_tickers, df_valid,
                   df_contig, df, fdf>>

(* pl.concat of an empty list raises, so the stage needs a row *)
AddRsi ==
    /\ pc = "frame"
    /\ fdf # <<>>
    /\ \E w \in Windows :
          /\ window' = w
          /\ fout' = add_rsi(fdf, w)
    /\ op' = "add_rsi"
    /\ pc' = "done"
    /\ UNCHANGED <<raw, min_samples_per_ticker, valid_tickers, df_valid,
                   df_contig, df, fdf>>

NextFeat == AddSma \/ AddEma \/ AddMacd \/ AddBollingerBands \/ AddRsi

SpecFeat == InitFeat /\ [][NextFeat]_vars

InitPre ==
    /\ pc = "input"
    /\ raw \in SeqUpTo(RawRows, MaxRaw)
    /\ min_samples_per_ticker \in MinSamples
    /\ valid_tickers = {}
    /\ df_valid = <<>>
    /\ df_contig = <<>>
    /\ df = <<>>
    /\ fdf = <<>>
    /\ window = 0
    /\ op = "none"
    /\ fout = <<>>

preprocess_data ==
    /\ pc = "input"
    /\ pc' = "done"
    /\ valid_tickers' = ValidTickers(raw, min_samples_per_ticker)
    /\ df_valid' = FilterTickers(raw, valid_tickers')
    /\ \E sorted \in SortResults(df_valid') :
          /\ df_contig' = FilterDelta(sorted)
          /\ df' = AddTargets(df_contig')
    /\ UNCHANGED <<raw, min_samples_per_ticker, fdf, window, op, fout>>

NextPre == preprocess_data

SpecPre == InitPre /\ [][NextPre]_vars

(* The same call on inputs that vary the prices *)
InitTgt ==
    /\ pc = "input"
    /\ raw \in SeqUpTo(TgtRows, MaxRaw)
    /\ min_samples_per_ticker = 0
    /\ valid_tickers = {}
    /\ df_valid = <<>>
    /\ df_contig = <<>>
    /\ df = <<>>
    /\ fdf = <<>>
    /\ window = 0
    /\ op = "none"
    /\ fout = <<>>

SpecTgt == InitTgt /\ [][NextPre]_vars

----------------------------------------------------------------------------
(* Claims about preprocess_data *)

(* The rows of ticker t in frame s, in frame order *)
Bars(s, t) == FilterIdx(s, {i \in Idx(s) : s[i].TICKER = t}, 1)
RawCount(t) == Cardinality({i \in Idx(raw) : raw[i].TICKER = t})

(* C1: in the output of the contiguity filter, any two bars that are
   consecutive among the retained bars of one ticker are exactly one cadence
   (5 minutes) apart. *)
C1_ConsecutiveRetainedOneCadence ==
    pc = "done" =>
        \A t \in Tickers : \A i \in 1..(Len(Bars(df_contig, t)) - 1) :
            Bars(df_contig, t)[i + 1].TIMESTAMP - Bars(df_contig, t)[i].TIMESTAMP
                = Cadence

(* C2: a ticker is retained by the ticker filter exactly when its raw row
   count is strictly greater than min_samples_per_ticker: a ticker at or
   below the threshold has no row in any later frame, a ticker above it keeps
   all of its raw rows through the ticker filter; the call completes. *)
C2_StrictThreshold ==
    pc = "done" =>
        \A t \in Tickers :
            IF RawCount(t) > min_samples_per_ticker
            THEN /\ t \in valid_tickers
                 /\ Bars(df_valid, t) = Bars(raw, t)
            ELSE /\ t \notin valid_tickers
                 /\ Bars(df_valid, t) = <<>>
                 /\ Bars(df_contig, t) = <<>>
                 /\ Bars(df, t) = <<>>

(* one ticker with exactly min_samples_per_ticker rows, one with more *)
C2_Witness ==
    /\ pc = "done"
    /\ min_samples_per_ticker = 1
    /\ RawCount(1) = 1
    /\ RawCount(2) = 3
    /\ valid_tickers = {2}
    /\ Len(df_valid) = 3

(* C10: the bars retained by the contiguity filter have strictly increasing
   timestamps within each ticker, any two of them at least one cadence apart,
   and the earliest raw bar of a ticker is never retained. *)
C10_RetainedStrictlyIncreasing ==
    pc = "done" =>
        \A t \in Tickers :
            /\ \A i, j \in Idx(Bars(df_contig, t)) :
                   i < j => Bars(df_contig, t)[j].TIMESTAMP
                              >= Bars(df_contig, t)[i].TIMESTAMP + Cadence
            /\ \A i \in Idx(Bars(df_contig, t)) : \E k \in Idx(raw) :
                   /\ raw[k].TICKER = t
                   /\ raw[k].TIMESTAMP < Bars(df_contig, t)[i].TIMESTAMP

(* a ticker with a duplicate bar, one copy of it and a later bar retained *)
C10_Witness ==
    /\ pc = "done"
    /\ Len(Bars(df_contig, 1)) = 2
    /\ \E i, j \in Idx(raw) :
          i # j /\ raw[i].TICKER = 1 /\ raw[j].TICKER = 1
                /\ raw[i].TIMESTAMP = Bars(df_contig, 1)[1].TIMESTAMP
                /\ raw[j].TIMESTAMP = Bars(df_contig, 1)[1].TIMESTAMP

(* C3: for each ticker with n bars after the contiguity filter the output
   holds the first n-1 of them, in timestamp order; CLOSE_FWD_1 is the CLOSE
   of the next bar of the same ticker and UP_NEXT is 1 exactly when
   CLOSE_FWD_1 > CLOSE (0 on a tie). *)
C3_TargetBuilder ==
    pc = "done" =>
        \A t \in Tickers :
            LET bars == Bars(df_contig, t)
                rows == Bars(df, t)
            IN  /\ Len(rows) = (IF Len(bars) = 0 THEN 0 ELSE Len(bars) - 1)
                /\ \A i \in Idx(rows) :
                      /\ rows[i].TIMESTAMP = bars[i].TIMESTAMP
                      /\ rows[i].CLOSE = bars[i].CLOSE
                      /\ bars[i].TIMESTAMP < bars[i + 1].TIMESTAMP
                      /\ rows[i].CLOSE_FWD_1 = bars[i + 1].CLOSE
                      /\ rows[i].UP_NEXT \in {0, 1}
                      /\ rows[i].UP_NEXT = 1 <=> bars[i + 1].CLOSE > bars[i].CLOSE

(* closes [1, 2, 1] after the filter: CLOSE_FWD_1 = [2, 1], UP_NEXT = [1, 0];
   and a second output with a tie *)
C3_Witness ==
    /\ pc = "done"
    /\ Len(df_contig) = 3
    /\ Len(df) = 2
    /\ df[1].CLOSE = 1 /\ df[1].CLOSE_FWD_1 = 2 /\ df[1].UP_NEXT = 1
    /\ df[2].CLOSE = 2 /\ df[2].CLOSE_FWD_1 = 1 /\ df[2].UP_NEXT = 0

----------------------------------------------------------------------------
(* Claims about the indicator stages *)

Base(r) == [TICKER |-> r.TICKER, TIMESTAMP |-> r.TIMESTAMP, CLOSE |-> r.CLOSE]
SameRowsSameOrder ==
    /\ Len(fout) = Len(fdf)
    /\ \A i \in Idx(fdf) : Base(fout[i]) = fdf[i]
SameRowsAnyOrder ==
    /\ Len(fout) = Len(fdf)
    /\ \A r \in FeatRows :
          Cardinality({i \in Idx(fout) : Base(fout[i]) = r})
              = Cardinality({i \in Idx(fdf) : fdf[i] = r})
(* sorted by (TICKER, TIMESTAMP) with every key once *)
StrictlySorted(s) ==
    \A i \in 1..(Len(s) - 1) :
        KeyLE(s[i], s[i + 1]) /\ ~KeyLE(s[i + 1], s[i])
(* the rows of each ticker are adjacent *)
TickersAdjacent(s) ==
    \A i, j \in Idx(s) : i < j /\ s[i].TICKER = s[j].TICKER =>
        \A m \in i..j : s[m].TICKER = s[i].TICKER

(* every (TICKER, TIMESTAMP) occurs once *)
UniqueKeys(s) ==
    \A i, j \in Idx(s) :
        s[i].TICKER = s[j].TICKER /\ s[i].TIMESTAMP = s[j].TIMESTAMP => i = j

(* C4 as stated: for any row order of an input that holds each
   (TICKER, TIMESTAMP) once, every indicator stage returns the input's rows
   in the input's order, with the input's columns unchanged. *)
C4_RowOrderPreservedAnyInput ==
    (op # "none" /\ UniqueKeys(fdf)) => SameRowsSameOrder

(* C4 amended: every indicator stage returns exactly the input's rows with
   the input's columns unchanged; add_sma keeps the input's order for any
   input, add_ema / add_macd / add_bollinger_bands keep it when the input is
   sorted by (TICKER, TIMESTAMP) with every key once, and add_rsi keeps it
   when the rows of each ticker are adjacent in the input. *)
C4_RowOrderPreservedSortedInput ==
    op # "none" =>
        /\ SameRowsAnyOrder
        /\ (op = "add_sma") => SameRowsSameOrder
        /\ (op \in {"add_ema", "add_macd", "add_bollinger_bands"}
                /\ StrictlySorted(fdf)) => SameRowsSameOrder
        /\ (op = "add_rsi" /\ TickersAdjacent(fdf)) => SameRowsSameOrder

C4_Witness ==
    /\ op = "add_rsi"
    /\ Len(fdf) = 3
    /\ StrictlySorted(fdf)
    /\ fdf[1].TICKER # fdf[3].TICKER
    /\ SameRowsSameOrder

(* The w most recent rows of row i's ticker up to and including row i *)
Trailing(s, i, w) ==
    {j \in SameTicker(s, i) :
        j <= i /\ Cardinality({m \in SameTicker(s, i) : j <= m /\ m <= i}) <= w}
RECURSIVE SumClose(_, _)
SumClose(s, I) ==
    IF I = {} THEN 0
    ELSE LET j == CHOOSE m \in I : TRUE IN s[j].CLOSE + SumClose(s, I \ {j})

(* C9: SMA_w is null on the first w-1 rows of a ticker and otherwise the
   arithmetic mean of the w most recent CLOSE values of the same ticker (the
   row and the w-1 rows of that ticker before it). *)
C9_SmaFullWindowPerTicker ==
    op = "add_sma" =>
        /\ SameRowsSameOrder
        /\ \A i \in Idx(fout) :
              IF PosInGroup(fdf, i) < window
              THEN fout[i].SMA.k = "null"
              ELSE /\ fout[i].SMA.k = "num"
                   /\ Cardinality(Trailing(fdf, i, window)) = window
                   /\ fout[i].SMA.q[1] * window
                        = fout[i].SMA.q[2] * SumClose(fdf, Trailing(fdf, i, window))

(* interleaved tickers: the window of the third row skips the second *)
C9_Witness ==
    /\ op = "add_sma"
    /\ window = 2
    /\ Len(fdf) = 3
    /\ fdf[1].TICKER = 1 /\ fdf[2].TICKER = 2 /\ fdf[3].TICKER = 1
    /\ fdf[1].CLOSE = 1 /\ fdf[2].CLOSE = 1 /\ fdf[3].CLOSE = 2
    /\ fout[1].SMA.k = "null"
    /\ fout[2].SMA.k = "null"
    /\ fout[3].SMA = Num(<<3, 2>>)

(* C5 as stated: add_bollinger_bands emits BB_MID_w as a value computed from
   the partial window on the first w-1 rows of a ticker. *)
C5_BollingerPartialWindow ==
    op = "add_bollinger_bands" =>
        \A i \in Idx(fout) :
            PosInGroup(fout, i) < window => fout[i].BB_MID.k = "num"

(* C5 amended: add_bollinger_bands enforces the full window exactly as
   add_sma does: on the first w-1 rows of a ticker BB_MID_w, BB_UPPER_w and
   BB_LOWER_w are null, and from the w-th row on BB_MID_w is the mean of the
   w most recent CLOSE values of the ticker and the bands are values. *)
C5_BollingerFullWindow ==
    op = "add_bollinger_bands" =>
        \A i \in Idx(fout) :
            IF PosInGroup(fout, i) < window
            THEN /\ fout[i].BB_MID.k = "null"
                 /\ fout[i].BB_UPPER.k = "null"
                 /\ fout[i].BB_LOWER.k = "null"
            ELSE /\ fout[i].BB_MID.k = "num"
                 /\ fout[i].BB_MID.q[1] * window
                      = fout[i].BB_MID.q[2] * SumClose(fout, Trailing(fout, i, window))
                 /\ fout[i].BB_UPPER.k = "num"
                 /\ fout[i].BB_LOWER.k = "num"

C5_Witness ==
    /\ op = "add_bollinger_bands"
    /\ window = 3
    /\ Len(fout) = 3
    /\ fout[1].TICKER = fout[3].TICKER
    /\ fout[1].BB_MID.k = "null"
    /\ fout[2].BB_MID.k = "null"
    /\ fout[3].BB_MID.k = "num"

(* The EMA recursion in closed form:
   EMA[t] = (1-a)^(t-1) x[1] + sum over j = 2..t of a (1-a)^(t-j) x[j] *)
RECURSIVE RPow(_, _)
RPow(q, n) == IF n = 0 THEN RInt(1) ELSE RMul(q, RPow(q, n - 1))
RECURSIVE ClosedTail(_, _, _, _)
ClosedTail(x, span, t, j) ==
    IF j > t THEN RInt(0)
    ELSE RAdd(RMul(RMul(Rat(2, span + 1), RPow(Rat(span - 1, span + 1), t - j)), x[j]),
              ClosedTail(x, span, t, j + 1))
ClosedEma(x, span, t) ==
    RAdd(RMul(RPow(Rat(span - 1, span + 1), t - 1), x[1]), ClosedTail(x, span, t, 2))

(* C8: per ticker in timestamp order MACD = EMA_12(CLOSE) - EMA_26(CLOSE),
   MACD_SIGNAL is the span-9 recursion over MACD seeded with the ticker's
   first MACD, MACD_HIST = MACD - MACD_SIGNAL, all three are 0 on the first
   bar of every ticker, and the temporary EMA columns are not in the output. *)
C8_Macd ==
    op = "add_macd" =>
        /\ SameRowsAnyOrder
        /\ \A i \in Idx(fout) :
              DOMAIN fout[i] = {"TICKER", "TIMESTAMP", "CLOSE",
                                "MACD", "MACD_SIGNAL", "MACD_HIST"}
        /\ \A t \in Tickers :
              LET rows == Bars(fout, t)
                  x == [i \in Idx(rows) |-> RInt(rows[i].CLOSE)]
              IN  \A i \in Idx(rows) :
                    /\ (i > 1) => rows[i - 1].TIMESTAMP <= rows[i].TIMESTAMP
                    /\ rows[i].MACD = RSub(ClosedEma(x, 12, i), ClosedEma(x, 26, i))
                    /\ rows[i].MACD_HIST = RSub(rows[i].MACD, rows[i].MACD_SIGNAL)
                    /\ (i = 1) => /\ rows[i].MACD = RInt(0)
                                /\ rows[i].MACD_SIGNAL = RInt(0)
                                /\ rows[i].MACD_HIST = RInt(0)
                    /\ (i > 1) => rows[i].MACD_SIGNAL =
                                  RAdd(RMul(Rat(2, 10), rows[i].MACD),
                                       RMul(Rat(8, 10), rows[i - 1].MACD_SIGNAL))

(* an unsorted input with two tickers; the second ticker starts afresh *)
C8_Witness ==
    /\ op = "add_macd"
    /\ Len(fout) = 3
    /\ ~StrictlySorted(fdf)
    /\ fout[1].TICKER = 1 /\ fout[2].TICKER = 1 /\ fout[3].TICKER = 2
    /\ fout[2].MACD # RInt(0)
    /\ fout[2].MACD_SIGNAL # fout[2].MACD
    /\ fout[3].MACD_SIGNAL = RInt(0)

(* avg_gain and avg_loss of the row at position p >= 2 of its ticker, from
   the closes x of the ticker, by the closed form *)
GainSeq(x) == [t \in 1..(Len(x) - 1) |->
                 IF x[t + 1] > x[t] THEN RInt(x[t + 1] - x[t]) ELSE RInt(0)]
LossSeq(x) == [t \in 1..(Len(x) - 1) |->
                 IF x[t + 1] < x[t] THEN RInt(x[t] - x[t + 1]) ELSE RInt(0)]
GroupCloses(s, i) == GroupSeq(s, [j \in Idx(s) |-> s[j].CLOSE], i)
AvgGain(s, i) == ClosedEma(GainSeq(GroupCloses(s, i)), window, PosInGroup(s, i) - 1)
AvgLoss(s, i) == ClosedEma(LossSeq(GroupCloses(s, i)), window, PosInGroup(s, i) - 1)
InRange0To100(v) ==
    /\ v.k = "num"
    /\ RLeq(RInt(0), v.q)
    /\ RLeq(v.q, RInt(100))

(* C6 as stated: RSI_w lies in [0, 100] on every row where avg_loss is
   defined (every row of a ticker after its first), also where
   avg_gain = avg_loss = 0. *)
C6_RsiInRangeEverywhere ==
    op = "add_rsi" =>
        \A i \in Idx(fout) : PosInGroup(fout, i) >= 2 => InRange0To100(fout[i].RSI)

(* C6 amended: on every row of a ticker after its first, RSI_w lies in
   [0, 100] unless avg_gain = avg_loss = 0 (the price has not moved so far),
   where RSI_w is NaN and comes out null; on the first row it is null. *)
C6_RsiInRangeUnlessFlat ==
    op = "add_rsi" =>
        \A i \in Idx(fout) :
            IF PosInGroup(fout, i) = 1 THEN fout[i].RSI.k = "null"
            ELSE IF AvgGain(fout, i) = RInt(0) /\ AvgLoss(fout, i) = RInt(0)
                 THEN fout[i].RSI.k = "null"
                 ELSE InRange0To100(fout[i].RSI)

(* a flat second bar, then a move *)
C6_Witness ==
    /\ op = "add_rsi"
    /\ Len(fout) = 3
    /\ fout[1].TICKER = fout[3].TICKER
    /\ fout[1].CLOSE = 2 /\ fout[2].CLOSE = 2 /\ fout[3].CLOSE = 1
    /\ fout[2].RSI.k = "null"
    /\ fout[3].RSI = Num(RInt(0))

(* C7: where avg_loss = 0 and avg_gain > 0, RSI_w is exactly 100 (a finite
   number, not null); where avg_loss > 0, RSI_w is strictly below 100. *)
C7_RsiHundredIffNoLoss ==
    op = "add_rsi" =>
        \A i \in Idx(fout) : PosInGroup(fout, i) >= 2 =>
            /\ (AvgLoss(fout, i) = RInt(0) /\ RLess(RInt(0), AvgGain(fout, i)))
                  => fout[i].RSI = Num(RInt(100))
            /\ RLess(RInt(0), AvgLoss(fout, i))
                  => /\ fout[i].RSI.k = "num"
                     /\ RLess(fout[i].RSI.q, RInt(100))

(* only gains on the second bar; a loss on the third *)
C7_Witness ==
    /\ op = "add_rsi"
    /\ Len(fout) = 3
    /\ fout[1].TICKER = fout[3].TICKER
    /\ fout[1].CLOSE = 1 /\ fout[2].CLOSE = 2 /\ fout[3].CLOSE = 1
    /\ fout[2].RSI = Num(RInt(100))
    /\ fout[3].RSI.k = "num"
    /\ RLess(fout[3].RSI.q, RInt(100))
    /\ RLess(RInt(0), fout[3].RSI.q)

====
